---- MODULE Spec2Model ----
(***************************************************************************)
(* State-machine model of the agent portal front-end:                      *)
(*   - the credential store of frontend/lib/api.ts (cookies, localStorage) *)
(*   - the OTP modal of frontend/components/OTPModal.tsx                    *)
(*   - the signup page that owns the modal, the login page, and the        *)
(*     dashboard's guard and logout: the callers of the credential store.  *)
(*                                                                         *)
(* One action is one event-loop task: a DOM event handler, the             *)
(* continuation of an awaited request, or a timer callback, together with  *)
(* the React commit that follows it (re-render, effect cleanup, effect).   *)
(* React flushes the effects of a commit before it handles the next event, *)
(* so no handler ever observes a state between a render and its effect.    *)
(***************************************************************************)
EXTENDS Integers, Sequences, FiniteSets, TLC

\* ---------------------------------------------------------------- bounds
MaxRawLen == 7      \* longest raw value handed to the OTP input's onChange
MaxJunk == 1        \* most non-digit characters in such a raw value
MaxTokenLen == 1    \* longest token string a backend response carries
MaxPending == 2     \* requests in flight at once, over the whole page

\* ------------------------------------------------------ program constants
OTP_LENGTH == 6
COUNTDOWN_START == 60
ACCESS_DAYS == 7
REFRESH_DAYS == 30
MIN_PASSWORD == 8

\* ------------------------------------------------------------ input sets
Digits == {"7"}
OtpChars == Digits \cup {"x"}
RawInputs ==
  UNION {{s \in [1..n -> OtpChars] :
            Cardinality({i \in 1..n : s[i] \notin Digits}) <= MaxJunk} : n \in 0..MaxRawLen}

TokenChars == {"a", "=", ";"}
Tokens == UNION {[1..n -> TokenChars] : n \in 0..MaxTokenLen}
Users == {"none", "bob"}

BodyTexts == {"", "Invalid OTP"}
TransportMessages == {""}

SIGNUP == "/auth/signup"
DASHBOARD == "/dashboard"
LOGIN == "/auth/login"

VARIABLES
  \* SignupPage
  pageLoading, pageError, showOTPModal,
  \* OTPModal
  otp, loading, error, countdown, canResend, timers,
  \* requests awaiting their response
  pending,
  \* browser: cookie jar, localStorage, router
  jar, localUser, route,
  \* DashboardPage
  dashboardLoading,
  \* LoginPage
  loginLoading, loginError,
  \* history: the last event handled, the access token of the last save, the
  \* message of the last failure, the form of the last signup submit, the
  \* modal's code and countdown state when the resend in flight was started
  lastEvent, lastToken, lastMsg, lastForm, resendStart

pageVars == <<pageLoading, pageError, showOTPModal>>
modalVars == <<otp, loading, error, countdown, canResend, timers>>
storeVars == <<jar, localUser>>
loginVars == <<loginLoading, loginError>>
vars == <<pageLoading, pageError, showOTPModal, otp, loading, error, countdown,
          canResend, timers, pending, jar, localUser, route, dashboardLoading,
          loginLoading, loginError, lastEvent, lastToken, lastMsg, lastForm, resendStart>>

isOpen == showOTPModal
mounted == route = SIGNUP

\* The code and the countdown state the modal holds now; what it holds at Init.
Snapshot == [otp |-> otp, countdown |-> countdown, canResend |-> canResend]
NoSnapshot == [otp |-> <<>>, countdown |-> COUNTDOWN_START, canResend |-> FALSE]

\* ------------------------------------------------------- string helpers
\* The part of s before the first occurrence of ch (all of s when there is none).
Before(s, ch) ==
  LET hits == {i \in 1..Len(s) : s[i] = ch}
  IN IF hits = {} THEN s
     ELSE SubSeq(s, 1, (CHOOSE i \in hits : \A j \in hits : i <= j) - 1)

Remove(s, i) == SubSeq(s, 1, i - 1) \o SubSeq(s, i + 1, Len(s))

Or(msg, fallback) == IF msg = "" THEN fallback ELSE msg

\* The part of s after the first occurrence of ch (empty when there is none).
After(s, ch) ==
  LET hits == {i \in 1..Len(s) : s[i] = ch}
  IN IF hits = {} THEN <<>>
     ELSE SubSeq(s, (CHOOSE i \in hits : \A j \in hits : i <= j) + 1, Len(s))

\* String.prototype.split(ch): the pieces of s between the occurrences of ch.
RECURSIVE Split(_, _)
Split(s, ch) ==
  IF \A i \in 1..Len(s) : s[i] # ch THEN <<s>>
  ELSE <<Before(s, ch)>> \o Split(After(s, ch), ch)

\* String.prototype.trim(), on the blanks the cookie getter puts after ";".
RECURSIVE Trim(_)
Trim(s) ==
  IF s # <<>> /\ s[1] = " " THEN Trim(Tail(s))
  ELSE IF s # <<>> /\ s[Len(s)] = " " THEN Trim(SubSeq(s, 1, Len(s) - 1))
  ELSE s

\* ------------------------------------------------------ credential store
\* A cookie name is one symbol; a cookie value is a sequence of characters.
ACCESS == "access_token"
REFRESH == "refresh_token"
CookieNames == {ACCESS, REFRESH}
NoCookie == [present |-> FALSE, value |-> <<>>, ttl |-> 0]
EmptyJar == [n \in CookieNames |-> NoCookie]

\* The browser's handling of `document.cookie = text`, text being
\* "<pair>; expires=<now + days>; path=/; ...": the name-value pair ends at the
\* first ";", the name at the first "=" of the pair; an expiry that is not in
\* the future removes the cookie of that name.
AssignDocumentCookie(j, pair, days) ==
  LET nv == Before(pair \o <<";">>, ";")
      name == Before(nv, "=")[1]
      value == After(nv, "=")
  IN IF name \notin CookieNames THEN j
     ELSE IF days <= 0 THEN [j EXCEPT ![name] = NoCookie]
     ELSE [j EXCEPT ![name] = [present |-> TRUE, value |-> value, ttl |-> days]]

\* The browser's `document.cookie` getter: "n1=v1; n2=v2" over the live cookies.
RECURSIVE Serialize(_, _)
Serialize(j, names) ==
  IF names = <<>> THEN <<>>
  ELSE LET n == Head(names)
           rest == Serialize(j, Tail(names))
       IN IF ~j[n].present THEN rest
          ELSE <<n, "=">> \o j[n].value
               \o (IF rest = <<>> THEN <<>> ELSE <<";", " ">> \o rest)

DocumentCookie(j) == Serialize(j, <<ACCESS, REFRESH>>)

setCookie(j, name, value, days) ==
  AssignDocumentCookie(j, <<name, "=">> \o value, days)

\* null is [found |-> FALSE]; cookieValue is the second piece of the split on
\* "=", which a pair without "=" does not have (undefined, read as empty).
RECURSIVE FindCookie(_, _)
FindCookie(cookies, name) ==
  IF cookies = <<>> THEN [found |-> FALSE, value |-> <<>>]
  ELSE LET parts == Split(Trim(Head(cookies)), "=")
       IN IF parts[1] = <<name>>
          THEN [found |-> TRUE,
                value |-> IF Len(parts) >= 2 THEN parts[2] ELSE <<>>]
          ELSE FindCookie(Tail(cookies), name)

getCookie(j, name) == FindCookie(Split(DocumentCookie(j), ";"), name)

deleteCookie(j, name) == AssignDocumentCookie(j, <<name, "=">>, 0)

saveAuthDataCookies(j, access, refresh) ==
  setCookie(setCookie(j, ACCESS, access, ACCESS_DAYS), REFRESH, refresh, REFRESH_DAYS)

saveAuthDataUser(lu, user) == IF user # "none" THEN user ELSE lu

clearAuthDataCookies(j) == deleteCookie(deleteCookie(j, ACCESS), REFRESH)

isAuthenticated(j) ==
  LET token == getCookie(j, ACCESS)
  IN token.found /\ token.value # <<>>

\* One day passes: every cookie is a day nearer its expiry and is dropped by
\* the browser when it gets there.
Expire(j) ==
  [n \in CookieNames |->
     IF j[n].present /\ j[n].ttl > 1
     THEN [j[n] EXCEPT !.ttl = j[n].ttl - 1]
     ELSE NoCookie]

\* --------------------------------------------------------- HTTP outcomes
\* apiRequest: a non-2xx response fails with detail || message || a default;
\* a transport or parse failure is re-thrown as it is.
ApiErrorMessage(detail, message) == Or(detail, Or(message, "API request failed"))

FailureMessages ==
  {ApiErrorMessage(d, m) : d \in BodyTexts, m \in BodyTexts} \cup TransportMessages

Outcomes ==
  {[ok |-> TRUE, msg |-> ""]} \cup {[ok |-> FALSE, msg |-> m] : m \in FailureMessages}

Request(kind, code) == [kind |-> kind, code |-> code]

\* ------------------------------------------------------------ signup form
Pw(c, n) == [i \in 1..n |-> c]
GoodEmail == <<"a", "@", "b", ".", "c">>
Emails == {<<>>, <<"a", "@", "b">>, GoodEmail}
Passwords == {<<>>, Pw("p", MIN_PASSWORD - 1), Pw("p", MIN_PASSWORD)}
Confirms == {<<>>, Pw("p", MIN_PASSWORD - 1), Pw("p", MIN_PASSWORD), Pw("q", MIN_PASSWORD)}
Forms == [email : Emails, password : Passwords, confirmPassword : Confirms]
NoForm == [email |-> <<>>, password |-> <<>>, confirmPassword |-> <<>>]

\* /^[^\s@]+@[^\s@]+\.[^\s@]+$/
emailRegexTest(e) ==
  \E i, j \in 1..Len(e) :
    /\ e[i] = "@" /\ e[j] = "."
    /\ 1 < i /\ i + 1 < j /\ j < Len(e)
    /\ \A k \in 1..Len(e) : k # i => e[k] \notin {"@", " "}

\* validateForm without the comparison of the two passwords.
validateForm_NoConfirmCheck(f) ==
  IF f.email = <<>> \/ f.password = <<>> \/ f.confirmPassword = <<>>
    THEN [ok |-> FALSE, error |-> "All fields are required"]
  ELSE IF ~emailRegexTest(f.email)
    THEN [ok |-> FALSE, error |-> "Please enter a valid email address"]
  ELSE IF Len(f.password) < MIN_PASSWORD
    THEN [ok |-> FALSE, error |-> "Password must be at least 8 characters long"]
  ELSE [ok |-> TRUE, error |-> ""]

\* SignupPage's validateForm: its result and the error it sets.
validateForm(f) ==
  IF f.email = <<>> \/ f.password = <<>> \/ f.confirmPassword = <<>>
    THEN [ok |-> FALSE, error |-> "All fields are required"]
  ELSE IF ~emailRegexTest(f.email)
    THEN [ok |-> FALSE, error |-> "Please enter a valid email address"]
  ELSE IF Len(f.password) < MIN_PASSWORD
    THEN [ok |-> FALSE, error |-> "Password must be at least 8 characters long"]
  ELSE IF f.password # f.confirmPassword
    THEN [ok |-> FALSE, error |-> "Passwords do not match"]
  ELSE [ok |-> TRUE, error |-> ""]

\* ------------------------------------------------------------- login form
LoginPasswords == {<<>>, Pw("p", MIN_PASSWORD)}
LoginForms == [email : Emails, password : LoginPasswords]

\* LoginPage's validateForm.
validateLoginForm(f) ==
  IF f.email = <<>> \/ f.password = <<>>
    THEN [ok |-> FALSE, error |-> "Email and password are required"]
  ELSE IF ~emailRegexTest(f.email)
    THEN [ok |-> FALSE, error |-> "Please enter a valid email address"]
  ELSE [ok |-> TRUE, error |-> ""]

\* What the login endpoint answers, and the messages that contain the two
\* texts the page looks for with String.prototype.includes.
LoginBodyTexts ==
  {"", "Invalid credentials", "Login failed: Invalid credentials", "Agent account required"}
LoginFailureMessages ==
  {ApiErrorMessage(d, "") : d \in LoginBodyTexts} \cup TransportMessages
LoginOutcomes ==
  {[ok |-> TRUE, msg |-> ""]} \cup {[ok |-> FALSE, msg |-> m] : m \in LoginFailureMessages}

\* String.prototype.includes, over the messages of LoginFailureMessages.
Includes(msg, text) ==
  \/ msg = text
  \/ <<msg, text>> = <<"Login failed: Invalid credentials", "Invalid credentials">>

\* The message handleLogin's catch block shows for a failure.
LoginErrorText(msg) ==
  IF Includes(msg, "Invalid credentials") THEN "Invalid email or password"
  ELSE IF Includes(msg, "Agent account required")
    THEN "This account is not registered as an agent"
  ELSE Or(msg, "Login failed. Please try again.")

\* The requests of a LoginPage that is no longer there: their continuations
\* still run, and their setState calls reach no mounted component.
Orphan(reqs) ==
  [k \in DOMAIN reqs |->
     IF reqs[k].kind = "login" THEN Request("login_gone", reqs[k].code) ELSE reqs[k]]

\* ------------------------------------------------- OTPModal: the effect
\* Cleanup that clears no timer.
Cleanup_None(ts, oldCountdown) == ts

\* The cleanup the previous run of the effect returned: clearTimeout of the
\* timer it had set, which captured the countdown value of that render.
Cleanup(ts, oldCountdown) == ts \ {oldCountdown}

\* EffectBody without the setCanResend(true) of its last branch.
EffectBody_NoEnable(open, cd, cr, ts) ==
  IF ~open
    THEN [countdown |-> COUNTDOWN_START, canResend |-> FALSE, timers |-> ts]
  ELSE IF cd > 0
    THEN [countdown |-> cd, canResend |-> cr, timers |-> ts \cup {cd}]
  ELSE [countdown |-> cd, canResend |-> cr, timers |-> ts]

\* EffectBody without the reset of its closed branch.
EffectBody_NoCloseReset(open, cd, cr, ts) ==
  IF ~open
    THEN [countdown |-> cd, canResend |-> cr, timers |-> ts]
  ELSE IF cd > 0
    THEN [countdown |-> cd, canResend |-> cr, timers |-> ts \cup {cd}]
  ELSE [countdown |-> cd, canResend |-> TRUE, timers |-> ts]

\* One run of the effect body under the rendered values.
EffectBody(open, cd, cr, ts) ==
  IF ~open
    THEN [countdown |-> COUNTDOWN_START, canResend |-> FALSE, timers |-> ts]
  ELSE IF cd > 0
    THEN [countdown |-> cd, canResend |-> cr, timers |-> ts \cup {cd}]
  ELSE [countdown |-> cd, canResend |-> TRUE, timers |-> ts]

\* The commit after a handler left isOpen = open, countdown = cd, canResend = cr:
\* the effect runs when a dependency [countdown, isOpen] differs from the
\* previous render's, and runs again when its own setCountdown changed one.
Commit(open, cd, cr, ts) ==
  IF open = showOTPModal /\ cd = countdown
    THEN [countdown |-> cd, canResend |-> cr, timers |-> ts]
  ELSE LET r == EffectBody(open, cd, cr, Cleanup(ts, countdown))
       IN IF r.countdown = cd THEN r
          ELSE EffectBody(open, r.countdown, r.canResend, Cleanup(r.timers, cd))

\* The modal's and its owner's next state, after the commit.
Render(open, o, l, e, cd, cr, ts) ==
  LET c == Commit(open, cd, cr, ts)
  IN /\ showOTPModal' = open
     /\ otp' = o
     /\ loading' = l
     /\ error' = e
     /\ countdown' = c.countdown
     /\ canResend' = c.canResend
     /\ timers' = c.timers

\* ------------------------------------------------ OTPModal: the controls
InputEnabled == isOpen /\ ~loading
\* The Verify button disabled by the code length alone.
VerifyButtonEnabled_NoBusy == isOpen /\ ~(Len(otp) # OTP_LENGTH)
VerifyButtonEnabled == isOpen /\ ~(loading \/ Len(otp) # OTP_LENGTH)
ResendButtonEnabled == isOpen /\ canResend /\ ~loading

\* StripNonDigits that strips nothing.
StripNonDigits_Identity(raw) == raw

\* value.replace(/\D/g, '')
StripNonDigits(raw) == SelectSeq(raw, LAMBDA c : c \in Digits)

\* ------------------------------------------------------------------ Init
\* The signup page is shown, mounted, with the modal closed; its mount effect
\* has run (it sets what useState already holds).
Init ==
  /\ pageLoading = FALSE /\ pageError = "" /\ showOTPModal = FALSE
  /\ otp = <<>> /\ loading = FALSE /\ error = ""
  /\ countdown = COUNTDOWN_START /\ canResend = FALSE /\ timers = {}
  /\ pending = <<>>
  /\ jar = EmptyJar /\ localUser = "none" /\ route = SIGNUP
  /\ dashboardLoading = TRUE
  /\ loginLoading = FALSE /\ loginError = ""
  /\ lastEvent = "init" /\ lastToken = <<>> /\ lastMsg = "" /\ lastForm = NoForm
  /\ resendStart = NoSnapshot

\* ----------------------------------------------------------- SignupPage
\* handleSignup, on the form's submit (the inputs and the button are disabled
\* while the page is loading).
handleSignup(f) ==
  LET v == validateForm(f)
  IN /\ mounted /\ ~pageLoading
     /\ IF ~v.ok
          THEN /\ pageError' = v.error
               /\ lastEvent' = "signup_invalid" /\ lastMsg' = ""
               /\ UNCHANGED <<pageLoading, pending>>
          ELSE /\ Len(pending) < MaxPending
               /\ pageError' = ""
               /\ pageLoading' = TRUE
               /\ pending' = Append(pending, Request("signup", <<>>))
               /\ lastEvent' = "signup_start" /\ lastMsg' = ""
     /\ UNCHANGED <<showOTPModal, modalVars, storeVars, route, dashboardLoading, lastToken, loginVars, resendStart>>

\* SignupResponse with a saveAuthData on its success path.
SignupResponse_Saves(i, out) ==
  /\ i \in DOMAIN pending /\ pending[i].kind = "signup"
  /\ pending' = Remove(pending, i)
  /\ lastEvent' = (IF out.ok THEN "signup_ok" ELSE "signup_fail") /\ lastMsg' = (IF out.ok THEN "" ELSE out.msg)
  /\ jar' = IF out.ok THEN saveAuthDataCookies(jar, <<"a">>, <<"a">>) ELSE jar
  /\ IF mounted
       THEN /\ pageLoading' = FALSE
            /\ pageError' = IF out.ok THEN pageError
                            ELSE Or(out.msg, "Signup failed. Please try again.")
            /\ Render(IF out.ok THEN TRUE ELSE showOTPModal,
                      otp, loading, error, countdown, canResend, timers)
       ELSE UNCHANGED <<pageVars, modalVars>>
  /\ UNCHANGED <<localUser, route, dashboardLoading, lastToken, loginVars, lastForm, resendStart>>

\* The continuation of handleSignup after `await authAPI.signup`.
SignupResponse(i, out) ==
  /\ i \in DOMAIN pending /\ pending[i].kind = "signup"
  /\ pending' = Remove(pending, i)
  /\ lastEvent' = (IF out.ok THEN "signup_ok" ELSE "signup_fail") /\ lastMsg' = (IF out.ok THEN "" ELSE out.msg)
  /\ IF mounted
       THEN /\ pageLoading' = FALSE
            /\ pageError' = IF out.ok THEN pageError
                            ELSE Or(out.msg, "Signup failed. Please try again.")
            /\ Render(IF out.ok THEN TRUE ELSE showOTPModal,
                      otp, loading, error, countdown, canResend, timers)
       ELSE UNCHANGED <<pageVars, modalVars>>
  /\ UNCHANGED <<storeVars, route, dashboardLoading, lastToken, loginVars, lastForm, resendStart>>

\* onClose: a click on the backdrop or on the close button.
onClose ==
  /\ mounted /\ isOpen
  /\ Render(FALSE, otp, loading, error, countdown, canResend, timers)
  /\ lastEvent' = "close" /\ lastMsg' = ""
  /\ UNCHANGED <<pageLoading, pageError, pending, storeVars, route, dashboardLoading, lastToken, loginVars, lastForm, resendStart>>

\* ------------------------------------------------------------- OTPModal
handleOTPChange(raw) ==
  LET value == StripNonDigits(raw)
  IN /\ mounted /\ InputEnabled
     /\ IF Len(value) <= OTP_LENGTH
          THEN /\ Render(showOTPModal, value, loading, "", countdown, canResend, timers)
               /\ lastEvent' = "edit" /\ lastMsg' = ""
          ELSE /\ UNCHANGED <<showOTPModal, modalVars>>
               /\ lastEvent' = "edit_ignored" /\ lastMsg' = ""
     /\ UNCHANGED <<pageLoading, pageError, pending, storeVars, route, dashboardLoading, lastToken, loginVars, lastForm, resendStart>>

\* handleVerify without its length check.
handleVerify_NoLengthCheck ==
  /\ mounted
  /\ Len(pending) < MaxPending
  /\ Render(showOTPModal, otp, TRUE, "", countdown, canResend, timers)
  /\ pending' = Append(pending, Request("verify", otp))
  /\ lastEvent' = "verify_start" /\ lastMsg' = ""
  /\ UNCHANGED <<pageLoading, pageError, storeVars, route, dashboardLoading, lastToken, loginVars, lastForm, resendStart>>

\* The body of handleVerify, whoever calls it.
handleVerify ==
  /\ mounted
  /\ IF Len(otp) # OTP_LENGTH
       THEN /\ Render(showOTPModal, otp, loading, "Please enter a 6-digit OTP",
                      countdown, canResend, timers)
            /\ lastEvent' = "verify_invalid" /\ lastMsg' = ""
            /\ UNCHANGED pending
       ELSE /\ Len(pending) < MaxPending
            /\ Render(showOTPModal, otp, TRUE, "", countdown, canResend, timers)
            /\ pending' = Append(pending, Request("verify", otp))
            /\ lastEvent' = "verify_start" /\ lastMsg' = ""
  /\ UNCHANGED <<pageLoading, pageError, storeVars, route, dashboardLoading, lastToken, loginVars, lastForm, resendStart>>

\* A click on the Verify button.
ClickVerify == VerifyButtonEnabled /\ handleVerify

\* handleKeyPress, for the Enter key in the OTP input.
handleKeyPress ==
  /\ mounted /\ InputEnabled
  /\ IF Len(otp) = OTP_LENGTH
       THEN handleVerify
       ELSE /\ lastEvent' = "enter_ignored" /\ lastMsg' = ""
            /\ UNCHANGED <<pageVars, modalVars, pending, storeVars, route,
                           dashboardLoading, lastToken, loginVars, lastForm, resendStart>>

\* handleResend up to its await, on a click on the Resend button.
handleResend ==
  /\ mounted /\ ResendButtonEnabled
  /\ Len(pending) < MaxPending
  /\ Render(showOTPModal, otp, TRUE, "", countdown, canResend, timers)
  /\ pending' = Append(pending, Request("resend", <<>>))
  /\ lastEvent' = "resend_start" /\ lastMsg' = ""
  /\ resendStart' = Snapshot
  /\ UNCHANGED <<pageLoading, pageError, storeVars, route, dashboardLoading, lastToken, loginVars, lastForm>>

\* ResendResponse with the reset of the countdown state on the failure path too.
ResendResponse_FailResets(i, out) ==
  /\ i \in DOMAIN pending /\ pending[i].kind = "resend"
  /\ pending' = Remove(pending, i)
  /\ lastEvent' = (IF out.ok THEN "resend_ok" ELSE "resend_fail") /\ lastMsg' = (IF out.ok THEN "" ELSE out.msg)
  /\ IF ~mounted THEN UNCHANGED <<showOTPModal, modalVars>>
     ELSE IF out.ok
       THEN Render(showOTPModal, <<>>, FALSE, "", COUNTDOWN_START, FALSE, timers)
       ELSE Render(showOTPModal, otp, FALSE, Or(out.msg, "Failed to resend OTP"),
                   countdown, FALSE, timers)
  /\ resendStart' = NoSnapshot
  /\ UNCHANGED <<pageLoading, pageError, storeVars, route, dashboardLoading, lastToken, loginVars, lastForm>>

\* ResendResponse without the setOtp('') of the success path.
ResendResponse_KeepsCode(i, out) ==
  /\ i \in DOMAIN pending /\ pending[i].kind = "resend"
  /\ pending' = Remove(pending, i)
  /\ lastEvent' = (IF out.ok THEN "resend_ok" ELSE "resend_fail") /\ lastMsg' = (IF out.ok THEN "" ELSE out.msg)
  /\ IF ~mounted THEN UNCHANGED <<showOTPModal, modalVars>>
     ELSE IF out.ok
       THEN Render(showOTPModal, otp, FALSE, "", COUNTDOWN_START, FALSE, timers)
       ELSE Render(showOTPModal, otp, FALSE, Or(out.msg, "Failed to resend OTP"),
                   countdown, canResend, timers)
  /\ resendStart' = NoSnapshot
  /\ UNCHANGED <<pageLoading, pageError, storeVars, route, dashboardLoading, lastToken, loginVars, lastForm>>

\* ResendResponse showing its own message for every failure.
ResendResponse_GenericMessage(i, out) ==
  /\ i \in DOMAIN pending /\ pending[i].kind = "resend"
  /\ pending' = Remove(pending, i)
  /\ lastEvent' = (IF out.ok THEN "resend_ok" ELSE "resend_fail") /\ lastMsg' = (IF out.ok THEN "" ELSE out.msg)
  /\ IF ~mounted THEN UNCHANGED <<showOTPModal, modalVars>>
     ELSE IF out.ok
       THEN Render(showOTPModal, <<>>, FALSE, "", COUNTDOWN_START, FALSE, timers)
       ELSE Render(showOTPModal, otp, FALSE, "Failed to resend OTP",
                   countdown, canResend, timers)
  /\ resendStart' = NoSnapshot
  /\ UNCHANGED <<pageLoading, pageError, storeVars, route, dashboardLoading, lastToken, loginVars, lastForm>>

\* The continuation of handleResend after `await authAPI.resendOTP`.
ResendResponse(i, out) ==
  /\ i \in DOMAIN pending /\ pending[i].kind = "resend"
  /\ pending' = Remove(pending, i)
  /\ lastEvent' = (IF out.ok THEN "resend_ok" ELSE "resend_fail") /\ lastMsg' = (IF out.ok THEN "" ELSE out.msg)
  /\ IF ~mounted THEN UNCHANGED <<showOTPModal, modalVars>>
     ELSE IF out.ok
       THEN Render(showOTPModal, <<>>, FALSE, "", COUNTDOWN_START, FALSE, timers)
       ELSE Render(showOTPModal, otp, FALSE, Or(out.msg, "Failed to resend OTP"),
                   countdown, canResend, timers)
  /\ resendStart' = NoSnapshot
  /\ UNCHANGED <<pageLoading, pageError, storeVars, route, dashboardLoading, lastToken, loginVars, lastForm>>

\* VerifyResponse with a setOtp('') on the failure path.
VerifyResponse_ClearsCode(i, out, access, refresh, user) ==
  /\ i \in DOMAIN pending /\ pending[i].kind = "verify"
  /\ pending' = Remove(pending, i)
  /\ IF out.ok
       THEN /\ jar' = saveAuthDataCookies(jar, access, refresh)
            /\ localUser' = saveAuthDataUser(localUser, user)
            /\ lastToken' = access
            /\ route' = DASHBOARD
            /\ dashboardLoading' = IF route = DASHBOARD THEN dashboardLoading ELSE TRUE
            /\ lastEvent' = "verify_ok" /\ lastMsg' = ""
            /\ IF mounted
                 THEN Render(FALSE, otp, FALSE, error, countdown, canResend, timers)
                 ELSE UNCHANGED <<showOTPModal, modalVars>>
       ELSE /\ lastEvent' = "verify_fail" /\ lastMsg' = out.msg
            /\ IF mounted
                 THEN Render(showOTPModal, <<>>, FALSE,
                             Or(out.msg, "Invalid OTP. Please try again."),
                             countdown, canResend, timers)
                 ELSE UNCHANGED <<showOTPModal, modalVars>>
            /\ UNCHANGED <<storeVars, route, dashboardLoading, lastToken>>
  /\ UNCHANGED <<pageLoading, pageError, loginVars, lastForm, resendStart>>

\* The continuation of handleVerify after `await onVerify(otp)`, onVerify being
\* the page's handleVerifyOTP: on success it saves the credentials, closes the
\* modal and pushes the dashboard; on failure it re-throws to the modal.
VerifyResponse(i, out, access, refresh, user) ==
  /\ i \in DOMAIN pending /\ pending[i].kind = "verify"
  /\ pending' = Remove(pending, i)
  /\ IF out.ok
       THEN /\ jar' = saveAuthDataCookies(jar, access, refresh)
            /\ localUser' = saveAuthDataUser(localUser, user)
            /\ lastToken' = access
            /\ route' = DASHBOARD
            /\ dashboardLoading' = IF route = DASHBOARD THEN dashboardLoading ELSE TRUE
            /\ lastEvent' = "verify_ok" /\ lastMsg' = ""
            /\ IF mounted
                 THEN Render(FALSE, otp, FALSE, error, countdown, canResend, timers)
                 ELSE UNCHANGED <<showOTPModal, modalVars>>
       ELSE /\ lastEvent' = "verify_fail" /\ lastMsg' = out.msg
            /\ IF mounted
                 THEN Render(showOTPModal, otp, FALSE,
                             Or(out.msg, "Invalid OTP. Please try again."),
                             countdown, canResend, timers)
                 ELSE UNCHANGED <<showOTPModal, modalVars>>
            /\ UNCHANGED <<storeVars, route, dashboardLoading, lastToken>>
  /\ UNCHANGED <<pageLoading, pageError, loginVars, lastForm, resendStart>>

\* The callback of the one-shot timer t, which captured the countdown value t.
TimerFires(t) ==
  /\ t \in timers
  /\ Render(showOTPModal, otp, loading, error, t - 1, canResend, timers \ {t})
  /\ lastEvent' = "tick" /\ lastMsg' = ""
  /\ UNCHANGED <<pageLoading, pageError, pending, storeVars, route, dashboardLoading, lastToken, loginVars, lastForm, resendStart>>

\* -------------------------------------------------------- DashboardPage
\* router.push('/auth/login') mounts a new LoginPage, in its useState values.
MountLogin ==
  /\ route' = LOGIN
  /\ loginLoading' = FALSE /\ loginError' = ""
  /\ pending' = Orphan(pending)

\* The mount effect: an unauthenticated visitor is sent to the login page.
DashboardMount ==
  /\ route = DASHBOARD /\ dashboardLoading
  /\ IF ~isAuthenticated(jar)
       THEN MountLogin /\ UNCHANGED dashboardLoading
       ELSE dashboardLoading' = FALSE /\ UNCHANGED <<route, pending, loginVars>>
  /\ lastEvent' = "dashboard_mount" /\ lastMsg' = ""
  /\ UNCHANGED <<pageVars, modalVars, storeVars, lastToken, lastForm, resendStart>>

\* handleLogout, on the Logout button (rendered once the page has loaded).
handleLogout ==
  /\ route = DASHBOARD /\ ~dashboardLoading
  /\ jar' = clearAuthDataCookies(jar)
  /\ localUser' = "none"
  /\ MountLogin
  /\ lastEvent' = "logout" /\ lastMsg' = ""
  /\ UNCHANGED <<pageVars, modalVars, dashboardLoading, lastToken, lastForm, resendStart>>

\* ------------------------------------------------------------ LoginPage
\* handleLogin, on the form's submit (the inputs and the button are disabled
\* while the page is loading).
handleLogin(f) ==
  LET v == validateLoginForm(f)
  IN /\ route = LOGIN /\ ~loginLoading
     /\ IF ~v.ok
          THEN /\ loginError' = v.error
               /\ lastEvent' = "login_invalid" /\ lastMsg' = ""
               /\ UNCHANGED <<loginLoading, pending>>
          ELSE /\ Len(pending) < MaxPending
               /\ loginError' = ""
               /\ loginLoading' = TRUE
               /\ pending' = Append(pending, Request("login", <<>>))
               /\ lastEvent' = "login_start" /\ lastMsg' = ""
     /\ UNCHANGED <<pageVars, modalVars, storeVars, route, dashboardLoading, lastToken,
                    lastForm, resendStart>>

\* LoginPage's handleKeyPress, for the Enter key in one of its inputs.
handleLoginKeyPress(f) == ~loginLoading /\ handleLogin(f)

\* LoginResponse without the finally block of handleLogin.
LoginResponse_NoFinally(i, out, access, refresh, user) ==
  LET live == pending[i].kind = "login" /\ route = LOGIN
  IN /\ i \in DOMAIN pending /\ pending[i].kind \in {"login", "login_gone"}
     /\ pending' = Remove(pending, i)
     /\ IF out.ok
          THEN /\ jar' = saveAuthDataCookies(jar, access, refresh)
               /\ localUser' = saveAuthDataUser(localUser, user)
               /\ lastToken' = access
               /\ route' = DASHBOARD
               /\ dashboardLoading' = IF route = DASHBOARD THEN dashboardLoading ELSE TRUE
               /\ lastEvent' = "login_ok" /\ lastMsg' = ""
               /\ UNCHANGED loginVars
          ELSE /\ lastEvent' = "login_fail" /\ lastMsg' = out.msg
               /\ loginError' = IF live THEN LoginErrorText(out.msg) ELSE loginError
               /\ UNCHANGED <<loginLoading, storeVars, route, dashboardLoading, lastToken>>
     /\ UNCHANGED <<pageVars, modalVars, lastForm, resendStart>>

\* The continuation of handleLogin after `await authAPI.login`.
LoginResponse(i, out, access, refresh, user) ==
  LET live == pending[i].kind = "login" /\ route = LOGIN
  IN /\ i \in DOMAIN pending /\ pending[i].kind \in {"login", "login_gone"}
     /\ pending' = Remove(pending, i)
     /\ loginLoading' = IF live THEN FALSE ELSE loginLoading
     /\ IF out.ok
          THEN /\ jar' = saveAuthDataCookies(jar, access, refresh)
               /\ localUser' = saveAuthDataUser(localUser, user)
               /\ lastToken' = access
               /\ route' = DASHBOARD
               /\ dashboardLoading' = IF route = DASHBOARD THEN dashboardLoading ELSE TRUE
               /\ lastEvent' = "login_ok" /\ lastMsg' = ""
               /\ UNCHANGED loginError
          ELSE /\ lastEvent' = "login_fail" /\ lastMsg' = out.msg
               /\ loginError' = IF live THEN LoginErrorText(out.msg) ELSE loginError
               /\ UNCHANGED <<storeVars, route, dashboardLoading, lastToken>>
     /\ UNCHANGED <<pageVars, modalVars, lastForm, resendStart>>

\* --------------------------------------------------------- specification
Next ==
  \/ \E f \in Forms : handleSignup(f) /\ UNCHANGED lastForm
  \/ \E i \in 1..MaxPending, out \in Outcomes : SignupResponse(i, out)
  \/ onClose
  \/ \E raw \in RawInputs : handleOTPChange(raw)
  \/ ClickVerify
  \/ handleKeyPress
  \/ handleResend
  \/ \E i \in 1..MaxPending, out \in Outcomes : ResendResponse(i, out)
  \/ \E i \in 1..MaxPending, out \in Outcomes :
       IF out.ok
         THEN \E a \in Tokens, r \in Tokens, u \in Users : VerifyResponse(i, out, a, r, u)
         ELSE VerifyResponse(i, out, <<>>, <<>>, "none")
  \/ \E t \in 0..COUNTDOWN_START : TimerFires(t)
  \/ DashboardMount
  \/ handleLogout

Spec == Init /\ [][Next]_vars

\* handleVerify called on the idle open modal whatever the code length, past
\* the disabled state of the Verify button (which never calls it with a code
\* that is not 6 long).
VerifyAttempt == InputEnabled /\ handleVerify

NextDirect ==
  \/ Next
  \/ VerifyAttempt

SpecDirect == Init /\ [][NextDirect]_vars

\* The signup form and the modal it opens, the submitted field values kept on
\* record.
SubmitSignup(f) == handleSignup(f) /\ lastForm' = f

NextSignup ==
  \/ \E f \in Forms : SubmitSignup(f)
  \/ \E i \in 1..MaxPending, out \in Outcomes : SignupResponse(i, out)
  \/ onClose
  \/ \E t \in 0..COUNTDOWN_START : TimerFires(t)

SpecSignup == Init /\ [][NextSignup]_vars

\* The whole portal: the signup page, the dashboard and the login page.
NextApp ==
  \/ Next
  \/ \E f \in LoginForms : handleLogin(f)
  \/ \E f \in LoginForms : handleLoginKeyPress(f)
  \/ \E i \in 1..MaxPending, out \in LoginOutcomes :
       IF out.ok
         THEN \E a \in Tokens, r \in Tokens, u \in Users : LoginResponse(i, out, a, r, u)
         ELSE LoginResponse(i, out, <<>>, <<>>, "none")

SpecApp == Init /\ [][NextApp]_vars

\* The credential store alone, driven by its callers in any order, with the
\* days passing.
StoreSave(access, refresh, user) ==
  /\ jar' = saveAuthDataCookies(jar, access, refresh)
  /\ localUser' = saveAuthDataUser(localUser, user)
  /\ lastEvent' = "save" /\ lastMsg' = ""
  /\ lastToken' = access
  /\ UNCHANGED <<pageVars, modalVars, pending, route, dashboardLoading, loginVars, lastForm, resendStart>>

StoreClear ==
  /\ jar' = clearAuthDataCookies(jar)
  /\ localUser' = "none"
  /\ lastEvent' = "clear" /\ lastMsg' = ""
  /\ UNCHANGED <<pageVars, modalVars, pending, route, dashboardLoading, lastToken, loginVars, lastForm, resendStart>>

DayPasses ==
  /\ jar' = Expire(jar)
  /\ lastEvent' = "day" /\ lastMsg' = ""
  /\ UNCHANGED <<pageVars, modalVars, pending, localUser, route, dashboardLoading, lastToken, loginVars, lastForm, resendStart>>

NextStore ==
  \/ \E a \in Tokens, r \in Tokens, u \in Users : StoreSave(a, r, u)
  \/ StoreClear
  \/ DayPasses

SpecStore == Init /\ [][NextStore]_vars

\* ----------------------------------------------------------------- claims
\* The modal's requests (verify, resend) that await their response.
ModalInFlight ==
  Cardinality({i \in DOMAIN pending : pending[i].kind \in {"verify", "resend"}})

\* The step is the arrival of the response of a verify or resend request.
ModalResponseStep ==
  \E i \in DOMAIN pending :
    /\ pending[i].kind \in {"verify", "resend"}
    /\ pending' = Remove(pending, i)

HasCookie(name) == getCookie(jar, name).found

\* C1: in every reachable state canResend is true iff countdown is 0.
C1_ResendIffZero == canResend <=> (countdown = 0)

\* The countdown has just ticked down to 0 in the open modal and resend is on.
C1_Witness == isOpen /\ lastEvent = "tick" /\ countdown = 0 /\ canResend

\* C2: a verify or resend response that arrives while the modal is closed
\* changes nothing: code, error, busy flag, countdown, canResend, the stored
\* credentials and the current page stay as they were.
C2_LateResponseChangesNothing ==
  [][(mounted /\ ~isOpen /\ ModalResponseStep)
       => UNCHANGED <<otp, error, loading, countdown, canResend, jar, localUser, route>>]_vars

\* C3: at most one verify or resend request of the modal is in flight.
C3_AtMostOneInFlight == ModalInFlight <= 1

\* The modal was closed and reopened while its request is still in flight.
C3_Witness == isOpen /\ lastEvent = "signup_ok" /\ ModalInFlight = 1 /\ loading

\* C4: a close destroys the entered code, and every open starts with an empty
\* code and no error.
C4_CloseDestroysCode ==
  [][/\ (isOpen /\ ~isOpen') => otp' = <<>>
     /\ (~isOpen /\ isOpen') => (otp' = <<>> /\ error' = "")]_vars

\* C5: every transition from closed to open starts with countdown = 60 and
\* canResend = false.
C5_OpenResetsCountdown ==
  [][(~isOpen /\ isOpen') => (countdown' = COUNTDOWN_START /\ ~canResend')]_vars

\* The modal has been reopened with a request of the previous session still in
\* flight and its code still there.
C5_Witness ==
  /\ isOpen /\ lastEvent = "signup_ok" /\ ModalInFlight = 1 /\ otp # <<>>
  /\ countdown = COUNTDOWN_START /\ ~canResend

\* C6: onVerify is called only with a code of exactly 6 digits; a verify
\* attempt with another length sets the validation message, leaves the busy
\* flag as it is and starts no request.
C6_VerifyOnlySixDigits ==
  [][/\ \A i \in DOMAIN pending' :
          pending'[i].kind = "verify" => Len(pending'[i].code) = OTP_LENGTH
     /\ lastEvent' = "verify_invalid"
          => /\ error' = "Please enter a 6-digit OTP"
             /\ loading' = loading
             /\ pending' = pending]_vars

\* handleVerify has just refused a code that is not 6 long.
C6_Witness ==
  /\ lastEvent = "verify_invalid" /\ Len(otp) # OTP_LENGTH
  /\ error = "Please enter a 6-digit OTP" /\ ~loading /\ ModalInFlight = 0

\* C7: after any sequence of save, clear and cookie expirations the two token
\* cookies are both present or both absent.
C7_BothOrNeither == HasCookie(ACCESS) <=> HasCookie(REFRESH)

\* C8: isAuthenticated() is true right after a save with a non-empty access
\* token and false right after a clear.
C8_AuthAfterSaveAndClear ==
  /\ (lastEvent = "save" /\ lastToken # <<>>) => isAuthenticated(jar)
  /\ lastEvent = "clear" => ~isAuthenticated(jar)

C10_ResendSuccessResets ==
  lastEvent = "resend_ok"
    => /\ otp = <<>> /\ countdown = COUNTDOWN_START /\ ~canResend
       /\ error = "" /\ ~loading

\* A resend has succeeded in the open modal and the countdown restarts.
C10_Witness == isOpen /\ lastEvent = "resend_ok" /\ timers = {COUNTDOWN_START}

C12_VerifyFailureKeepsModal ==
  [][lastEvent' = "verify_fail"
       => /\ UNCHANGED <<jar, localUser, route>>
          /\ mounted => /\ isOpen' = isOpen
                         /\ error' = Or(lastMsg', "Invalid OTP. Please try again.")
                         /\ otp' = otp]_vars

\* A verify has failed without a message: the modal is open with the generic
\* message, the 6-digit code still in the input, and no token cookie.
C12_Witness ==
  /\ isOpen /\ lastEvent = "verify_fail" /\ lastMsg = ""
  /\ error = "Invalid OTP. Please try again." /\ Len(otp) = OTP_LENGTH
  /\ ~HasCookie(ACCESS) /\ ~HasCookie(REFRESH)

\* The step is the arrival of the response of a request of kind k.
ResponseStep(k) ==
  \E i \in DOMAIN pending : pending[i].kind = k /\ pending' = Remove(pending, i)

InFlight(k) == \E i \in DOMAIN pending : pending[i].kind = k

\* C13: every response to a verify, resend, signup or login request, success
\* or failure, leaves the busy flag of the form that sent it false, and a form
\* is busy only while a request of its own is in flight.
C13_ResponseEndsBusy ==
  [][/\ (mounted /\ ModalResponseStep) => ~loading'
     /\ (mounted /\ ResponseStep("signup")) => ~pageLoading'
     /\ (route = LOGIN /\ ResponseStep("login")) => ~loginLoading'
     /\ (mounted' /\ loading') => (InFlight("verify")' \/ InFlight("resend")')
     /\ (mounted' /\ pageLoading') => InFlight("signup")'
     /\ (route' = LOGIN /\ loginLoading') => InFlight("login")']_vars

\* A login has been refused: the login form is idle again, with its message.
C13_Witness ==
  /\ route = LOGIN /\ lastEvent = "login_fail" /\ ~loginLoading
  /\ loginError = "Invalid email or password" /\ ~InFlight("login")

\* C14: every edit event on the OTP input, whatever its raw value (a value of
\* more than 6 digits included), leaves the modal's error message empty.
C14_EveryEditClearsError ==
  [][lastEvent' \in {"edit", "edit_ignored"} => error' = ""]_vars

\* C15: in every reachable state the stored code consists of digits only and
\* is at most 6 long, whatever raw values the edit handler was given.
C15_CodeIsDigitsAtMostSix ==
  /\ Len(otp) <= OTP_LENGTH
  /\ \A k \in 1..Len(otp) : otp[k] \in Digits

\* An edit has filled the code to its full length.
C15_Witness == isOpen /\ lastEvent = "edit" /\ Len(otp) = OTP_LENGTH /\ ~loading

\* The submitted form passes the validation the signup page is to apply.
FormValid(f) ==
  /\ f.email # <<>> /\ f.password # <<>> /\ f.confirmPassword # <<>>
  /\ emailRegexTest(f.email)
  /\ Len(f.password) >= MIN_PASSWORD
  /\ f.confirmPassword = f.password

\* C16: a signup request is issued only for a form that passes validation; a
\* submit of a form that fails it sets an inline error, issues no request,
\* leaves the busy flag false and does not open the OTP modal.
C16_SignupOnlyWhenValid ==
  [][/\ Len(pending') > Len(pending) => FormValid(lastForm')
     /\ (lastEvent' \in {"signup_start", "signup_invalid"} /\ ~FormValid(lastForm'))
          => /\ pageError' # ""
             /\ pending' = pending
             /\ ~pageLoading'
             /\ showOTPModal' = showOTPModal]_vars

\* A form whose two passwords differ has been refused on the idle page.
C16_Witness ==
  /\ lastEvent = "signup_invalid" /\ lastForm.password # lastForm.confirmPassword
  /\ Len(lastForm.password) >= MIN_PASSWORD /\ lastForm.confirmPassword # <<>>
  /\ pageError = "Passwords do not match"
  /\ ~pageLoading /\ ~showOTPModal /\ pending = <<>>

\* C17: at most one countdown timer is pending, and none while the modal is
\* closed; a tick happens only in the open modal with the countdown above 0
\* and takes exactly 1 off it, and the countdown never decreases in a step
\* that starts with the modal closed.
C17_OneTimerNoStaleTick ==
  [][/\ Cardinality(timers') <= 1
     /\ timers' \subseteq {countdown'}
     /\ ~isOpen' => timers' = {}
     /\ lastEvent' = "tick" => (isOpen /\ countdown > 0 /\ countdown' = countdown - 1)
     /\ ~isOpen => countdown' >= countdown]_vars

\* The first tick of a countdown, with the timer of the next one pending.
C17_Witness ==
  /\ isOpen /\ lastEvent = "tick" /\ countdown = COUNTDOWN_START - 1
  /\ timers = {COUNTDOWN_START - 1}

\* C18: in the signup flow a token cookie is written, and the page left for
\* the dashboard, only by a successful verify response, which leaves both
\* cookies written, the modal closed and the dashboard pushed; a successful
\* signup opens the modal and writes nothing, and a failed verify writes
\* nothing.
C18_SaveOnlyOnVerifySuccess ==
  [][/\ (\E n \in CookieNames : jar'[n].present /\ jar'[n] # jar[n])
          => lastEvent' = "verify_ok"
     /\ (mounted /\ ~mounted') => lastEvent' = "verify_ok"
     /\ lastEvent' = "verify_ok"
          => /\ jar' = saveAuthDataCookies(jar, lastToken', jar'[REFRESH].value)
             /\ jar'[ACCESS].present /\ jar'[REFRESH].present
             /\ route' = DASHBOARD
             /\ mounted => ~isOpen'
     /\ lastEvent' = "signup_ok"
          => /\ UNCHANGED <<jar, localUser, route>>
             /\ mounted => isOpen'
     /\ lastEvent' = "verify_fail" => UNCHANGED <<jar, localUser>>]_vars

\* A successful verify has saved both cookies, closed the modal and pushed
\* the dashboard.
C18_Witness ==
  /\ lastEvent = "verify_ok" /\ route = DASHBOARD /\ ~isOpen
  /\ HasCookie(ACCESS) /\ HasCookie(REFRESH) /\ lastToken = <<"a">>
  /\ isAuthenticated(jar)

====
